---------------------------- MODULE Spec2Model ----------------------------
(***************************************************************************)
(* Swept AABB-3D (Main.cpp): the swept collision solver SweptAABB, the     *)
(* per-tick integration and response step update, and the fixed-timestep   *)
(* scheduler checkTime.                                                    *)
(*                                                                         *)
(* Numbers.  Lengths are integers in units of 0.1 world units, wall-clock  *)
(* time is in milliseconds, velocities are in length units per second.     *)
(* The per-axis entry and exit times of the solver are quotients of two    *)
(* lengths; they are kept as exact fractions [n, d] (d > 0), with d = 0    *)
(* for the two infinities, and compared by cross-multiplication.  Float    *)
(* rounding is not modelled.                                               *)
(***************************************************************************)
EXTENDS Integers, Sequences, FiniteSets, TLC

VARIABLES
    call,         \* the last SweptAABB call: its arguments and what it left behind
    pos2,         \* obj2 (the moving body): position
    vel2,         \* obj2: velocity
    obs,          \* what the last update(dt) did (history of one tick)
    ticks,        \* number of update(dt) calls executed so far (history)
    hits,         \* number of those in which SweptAABB reported a collision (history)
    time,         \* Main.cpp:51   last clock reading
    timebase,     \* Main.cpp:52   clock at the last physics pass
    accumulator,  \* Main.cpp:53
    frame,        \* Main.cpp:50
    fps,          \* Main.cpp:54
    FPSTime,      \* Main.cpp:55
    pc,           \* position of the main loop
    frames,       \* number of checkTime calls made so far (history)
    clamped       \* whether the 0.25 clamp has ever triggered (history)

vars == <<call, pos2, vel2, obs, ticks, hits, time, timebase, accumulator,
          frame, fps, FPSTime, pc, frames, clamped>>

Axes == 1..3

----------------------------------------------------------------------------
(* Exact fractions with the two infinities. *)

Frac(n, d) == [n |-> n, d |-> d]

NegInf == Frac(-1, 0)
PosInf == Frac(1, 0)
Zero == Frac(0, 1)
One == Frac(1, 1)
\* 2.0f: the no-collision sentinel (Main.cpp:131 and Main.cpp:212)
Two == Frac(2, 1)

\* a < b on floats
Lt(a, b) == IF a.d = 0 /\ b.d = 0 THEN a.n < b.n ELSE a.n * b.d < b.n * a.d
Gt(a, b) == Lt(b, a)
Eq(a, b) == ~Lt(a, b) /\ ~Lt(b, a)
Leq(a, b) == ~Lt(b, a)

\* std::max / std::min on two floats
Max(a, b) == IF Lt(a, b) THEN b ELSE a
Min(a, b) == IF Lt(b, a) THEN b ELSE a

\* dist / v for v # 0, the sign carried by the numerator
Quot(dist, v) == IF v > 0 THEN Frac(dist, v) ELSE Frac(-dist, -v)

Abs(x) == IF x < 0 THEN -x ELSE x
IntMax(a, b) == IF a < b THEN b ELSE a
Sign(x) == IF x > 0 THEN 1 ELSE IF x < 0 THEN -1 ELSE 0

----------------------------------------------------------------------------
(* SweptAABB, Main.cpp:77-266.  box1 moves by vel1, box2 stands still. *)

\* bool TestAABB(AABB a, AABB b)
TestAABB(a, b) ==
    ~ \E i \in Axes : a.max[i] < b.min[i] \/ a.min[i] > b.max[i]

\* a variant of DistanceEntry that does not look at the direction of motion
DistanceEntryOneWay(box1, box2, vel1, i) == box2.min[i] - box1.max[i]

\* xDistanceEntry, yDistanceEntry, zDistanceEntry
DistanceEntry(box1, box2, vel1, i) ==
    IF vel1[i] > 0 THEN box2.min[i] - box1.max[i]
                   ELSE box2.max[i] - box1.min[i]

\* xDistanceExit, yDistanceExit, zDistanceExit
DistanceExit(box1, box2, vel1, i) ==
    IF vel1[i] > 0 THEN box2.max[i] - box1.min[i]
                   ELSE box2.min[i] - box1.max[i]

\* a variant of AxisApart with >= for >: boxes that only touch count as apart
AxisApartInclusive(box1, box2, vel1, i) ==
    IntMax(Abs(DistanceEntry(box1, box2, vel1, i)),
           Abs(DistanceExit(box1, box2, vel1, i)))
      >= (box1.max[i] - box1.min[i]) + (box2.max[i] - box2.min[i])

\* the test of a zero-velocity axis: the larger distance exceeds both sizes
AxisApart(box1, box2, vel1, i) ==
    IntMax(Abs(DistanceEntry(box1, box2, vel1, i)),
           Abs(DistanceExit(box1, box2, vel1, i)))
      > (box1.max[i] - box1.min[i]) + (box2.max[i] - box2.min[i])

\* xEntryTime, yEntryTime, zEntryTime
AxisEntryTime(box1, box2, vel1, i) ==
    IF vel1[i] = 0
      THEN IF AxisApart(box1, box2, vel1, i) THEN Two ELSE NegInf
      ELSE Quot(DistanceEntry(box1, box2, vel1, i), vel1[i])

\* xExitTime, yExitTime, zExitTime
AxisExitTime(box1, box2, vel1, i) ==
    IF vel1[i] = 0
      THEN PosInf
      ELSE Quot(DistanceExit(box1, box2, vel1, i), vel1[i])

\* the three entry times and the three exit times
EntryTimes(box1, box2, vel1) ==
    <<AxisEntryTime(box1, box2, vel1, 1), AxisEntryTime(box1, box2, vel1, 2),
      AxisEntryTime(box1, box2, vel1, 3)>>
ExitTimes(box1, box2, vel1) ==
    <<AxisExitTime(box1, box2, vel1, 1), AxisExitTime(box1, box2, vel1, 2),
      AxisExitTime(box1, box2, vel1, 3)>>

\* float entryTime = std::max(std::max(xEntryTime, yEntryTime), zEntryTime)
EntryTime(te) == Max(Max(te[1], te[2]), te[3])

\* float exitTime = std::min(std::min(xExitTime, yExitTime), zExitTime)
ExitTime(tx) == Min(Min(tx[1], tx[2]), tx[3])

\* a variant of NoCollision without the test that all entry times are negative
NoCollisionNoPastTest(te, tx) ==
    \/ Gt(EntryTime(te), ExitTime(tx))
    \/ Gt(te[1], One)
    \/ Gt(te[2], One)
    \/ Gt(te[3], One)

\* the condition of the if at Main.cpp:197
NoCollision(te, tx) ==
    \/ Gt(EntryTime(te), ExitTime(tx))
    \/ (Lt(te[1], Zero) /\ Lt(te[2], Zero) /\ Lt(te[3], Zero))
    \/ Gt(te[1], One)
    \/ Gt(te[2], One)
    \/ Gt(te[3], One)

\* axis i is the last to cross: its entry time is strictly the greatest
LastToCross(te, i) == \A j \in Axes \ {i} : Gt(te[i], te[j])

\* a variant of NormalSign that takes the sign of the distance, zero included
NormalSignOrZero(distanceEntry) == 0 - Sign(distanceEntry)

\* the normal written for colliding axis i
NormalSign(distanceEntry) == IF distanceEntry < 0 THEN 1 ELSE -1
AxisNormal(distanceEntry, i) ==
    <<IF i = 1 THEN NormalSign(distanceEntry) ELSE 0,
      IF i = 2 THEN NormalSign(distanceEntry) ELSE 0,
      IF i = 3 THEN NormalSign(distanceEntry) ELSE 0>>

\* normalx, normaly, normalz after the else branch; nIn is what the caller's
\* three variables held before the call (no branch assigns them on a tie)
CollisionNormal(box1, box2, vel1, te, nIn) ==
    IF LastToCross(te, 1) THEN AxisNormal(DistanceEntry(box1, box2, vel1, 1), 1)
    ELSE IF LastToCross(te, 2) THEN AxisNormal(DistanceEntry(box1, box2, vel1, 2), 2)
    ELSE IF LastToCross(te, 3) THEN AxisNormal(DistanceEntry(box1, box2, vel1, 3), 3)
    ELSE nIn

\* one call of SweptAABB: the arguments, the entry times, the value returned
\* (time) and the normal the call leaves in the caller's variables
SweptAABB(box1, box2, vel1, nIn) ==
    LET te == EntryTimes(box1, box2, vel1)
        tx == ExitTimes(box1, box2, vel1)
        none == NoCollision(te, tx)
    IN  [box1 |-> box1, box2 |-> box2, vel1 |-> vel1, entry |-> te,
         time |-> IF none THEN Two ELSE EntryTime(te),
         normal |-> IF none THEN <<0, 0, 0>>
                            ELSE CollisionNormal(box1, box2, vel1, te, nIn),
         done |-> TRUE]

\* what an uninitialised float may hold: zero, or something else
UninitFloat == {0, 5}
UninitNormal == {<<a, b, c>> : a \in UninitFloat, b \in UninitFloat, c \in UninitFloat}

NoCall ==
    [box1 |-> [min |-> <<0, 0, 0>>, max |-> <<0, 0, 0>>],
     box2 |-> [min |-> <<0, 0, 0>>, max |-> <<0, 0, 0>>],
     vel1 |-> <<0, 0, 0>>, entry |-> <<Two, Two, Two>>, time |-> Two,
     normal |-> <<0, 0, 0>>, done |-> FALSE]

----------------------------------------------------------------------------
(* update, Main.cpp:269-358.  GameObject (Rotate, CalculateAABB, Update) is *)
(* not part of Main.cpp; its three methods are modelled from their use.     *)

\* double physicsStep = 0.012, in milliseconds
physicsStep == 12
\* milliseconds per second: velocities are per second, durations in ms
MsPerSecond == 1000
\* the limits of the boundary check: 0.9f, 0.8f, 1.0f in units of 0.1
BoundX == 9
BoundY == 8
BoundZ == 10
Bound == <<BoundX, BoundY, BoundZ>>

\* obj1, the stationary body, sits at the origin and has no velocity
Obj1Position == <<0, 0, 0>>

\* the largest half-extent a body's recomputed AABB takes as the body rotates
MaxHalfExtent == 2
HalfExtents == 1..MaxHalfExtent

\* a / b rounded to the nearest integer, b > 0
RoundDiv(a, b) == (2 * a + b) \div (2 * b)

\* the boundary check at the top of update: each over-extended axis bounces
BoundaryFired(p, i) == Abs(p[i]) > Bound[i]
\* a variant of ReflectAxis that bounces an over-extended axis only while the
\* body still moves outwards on it
ReflectAxisOutward(p, v, i) == IF BoundaryFired(p, i) /\ p[i] * v[i] > 0 THEN -v[i] ELSE v[i]
ReflectAxis(p, v, i) == IF BoundaryFired(p, i) THEN -v[i] ELSE v[i]
BoundaryReflect(p, v) == <<ReflectAxis(p, v, 1), ReflectAxis(p, v, 2), ReflectAxis(p, v, 3)>>

\* GameObject::CalculateAABB: the box around position p; h is the half-extent
\* the body's current orientation gives it
CalculateAABB(p, h) ==
    [min |-> <<p[1] - h, p[2] - h, p[3] - h>>, max |-> <<p[1] + h, p[2] + h, p[3] + h>>]

\* obj2->GetVelocity() * dt, dt in ms
Displacement(v, dt) ==
    <<RoundDiv(v[1] * dt, MsPerSecond), RoundDiv(v[2] * dt, MsPerSecond),
      RoundDiv(v[3] * dt, MsPerSecond)>>

\* float remainingTime = 1.0f - collisionTime
RemainingTime(collisionTime) == Frac(collisionTime.d - collisionTime.n, collisionTime.d)

\* the three ifs on abs(normal) > 0.0001f
BounceAxis(v, normal, i) == IF Abs(normal[i]) > 0 THEN -v[i] ELSE v[i]
Bounce(v, normal) == <<BounceAxis(v, normal, 1), BounceAxis(v, normal, 2), BounceAxis(v, normal, 3)>>

\* collisionTime * dt and remainingTime * dt: a duration in ms, as a fraction
Scale(t, dt) == Frac(t.n * dt, t.d)

\* GameObject::Update(dur): the position moves by velocity * dur
IntegrateAxis(p, v, dur, i) == p[i] + RoundDiv(v[i] * dur.n, dur.d * MsPerSecond)
Integrate(p, v, dur) ==
    <<IntegrateAxis(p, v, dur, 1), IntegrateAxis(p, v, dur, 2), IntegrateAxis(p, v, dur, 3)>>

\* the durations update passes to Update, in order
UpdateDurations(collisionTime, dt) ==
    IF Leq(Zero, RemainingTime(collisionTime))
      THEN <<Scale(collisionTime, dt), Scale(RemainingTime(collisionTime), dt)>>
      ELSE <<Frac(dt, 1)>>

\* obj2's velocity when update returns
UpdateVelocity(vIn, c) ==
    IF Leq(Zero, RemainingTime(c.time)) THEN Bounce(vIn, c.normal) ELSE vIn

\* a variant of UpdatePosition that sets the bounced velocity before the first
\* of the two integrations
UpdatePositionBounceFirst(p, vIn, c, dt) ==
    IF Leq(Zero, RemainingTime(c.time))
      THEN Integrate(Integrate(p, Bounce(vIn, c.normal), Scale(c.time, dt)),
                     Bounce(vIn, c.normal), Scale(RemainingTime(c.time), dt))
      ELSE Integrate(p, vIn, Frac(dt, 1))

\* obj2's position when update returns
UpdatePosition(p, vIn, c, dt) ==
    IF Leq(Zero, RemainingTime(c.time))
      THEN Integrate(Integrate(p, vIn, Scale(c.time, dt)),
                     Bounce(vIn, c.normal), Scale(RemainingTime(c.time), dt))
      ELSE Integrate(p, vIn, Frac(dt, 1))

\* the call of the solver in update: obj2 moves, obj1 stands still
UpdateCall(p, vIn, dt, h1, h2, nIn) ==
    SweptAABB(CalculateAABB(p, h2), CalculateAABB(Obj1Position, h1), Displacement(vIn, dt), nIn)

\* float normalx, normaly, normalz: declared without a value.  What they hold is
\* read only when the call assigns none of them, and only then is it drawn
NormalAssigned(c) ==
    c.time = Two \/ \E i \in Axes : LastToCross(c.entry, i)
Uninitialised(p, v, dt, h1, h2) ==
    IF NormalAssigned(UpdateCall(p, BoundaryReflect(p, v), dt, h1, h2, <<0, 0, 0>>))
      THEN {<<0, 0, 0>>}
      ELSE UninitNormal

NoObs ==
    [done |-> FALSE, pos0 |-> <<0, 0, 0>>, vel0 |-> <<0, 0, 0>>, velIn |-> <<0, 0, 0>>,
     fired |-> <<FALSE, FALSE, FALSE>>, dt |-> 0, durs1 |-> <<>>, durs2 |-> <<>>]

\* void update(float dt): h1, h2 are the half-extents the rotation leaves obj1 and
\* obj2, nIn is what the uninitialised normalx, normaly, normalz hold
update(dt, h1, h2, nIn) ==
    LET vIn == BoundaryReflect(pos2, vel2)
        c == UpdateCall(pos2, vIn, dt, h1, h2, nIn)
    IN  /\ call' = c
        /\ vel2' = UpdateVelocity(vIn, c)
        /\ pos2' = UpdatePosition(pos2, vIn, c, dt)
        /\ obs' = [done |-> TRUE, pos0 |-> pos2, vel0 |-> vel2, velIn |-> vIn,
                   fired |-> <<BoundaryFired(pos2, 1), BoundaryFired(pos2, 2), BoundaryFired(pos2, 3)>>, dt |-> dt,
                   durs1 |-> UpdateDurations(c.time, dt),
                   durs2 |-> UpdateDurations(c.time, dt)]
        /\ ticks' = ticks + 1
        /\ hits' = IF c.time = Two THEN hits ELSE hits + 1

----------------------------------------------------------------------------
(* checkTime and the main loop, Main.cpp:361-408 and Main.cpp:438-455. *)

\* if (dt > 0.25) dt = 0.25, in milliseconds
maxDt == 250
\* if (time - FPSTime > 1.0), in milliseconds
FPSWindow == 1000

\* the number of frames (checkTime calls) explored
MaxFrames == 4
\* what the clock may advance by between two readings of glfwGetTime: exactly
\* one step, more than a step, more than the clamp and the FPS window
Deltas == {12, 30, 1010}

\* if (dt > physicsStep)
GatePassed(now, tb) == now - tb > physicsStep

\* a variant of Clamp with the limit a tenth of 0.25
ClampShort(dt) == IF dt > 25 THEN 25 ELSE dt

\* the clamp of dt
Clamp(dt) == IF dt > maxDt THEN maxDt ELSE dt

\* a variant of Accumulate with = for +=
AccumulateOverwrite(acc, dt) == Clamp(dt)

\* accumulator += dt, after the clamp
Accumulate(acc, dt) == acc + Clamp(dt)

\* fps = frame / (time - FPSTime), an int; the difference is in ms
FpsValue(f, now, ft) == (f * MsPerSecond) \div (now - ft)

\* checkTime up to its while loop, reading the clock as now
CheckTimeEnter(now) ==
    /\ time' = now
    /\ IF GatePassed(now, timebase)
         THEN /\ IF now - FPSTime > FPSWindow
                   THEN /\ fps' = FpsValue(frame, now, FPSTime)
                        /\ FPSTime' = now
                        /\ frame' = 0
                   ELSE UNCHANGED <<fps, FPSTime, frame>>
              /\ timebase' = now
              /\ accumulator' = Accumulate(accumulator, now - timebase)
              /\ clamped' = (clamped \/ now - timebase > maxDt)
              /\ pc' = "while"
         ELSE /\ UNCHANGED <<fps, FPSTime, frame, timebase, accumulator, clamped>>
              /\ pc' = "render"
    /\ frames' = frames + 1
    /\ UNCHANGED <<call, pos2, vel2, obs, ticks, hits>>

\* the main loop calls checkTime; the clock has advanced by d
CheckTime ==
    /\ pc = "checkTime"
    /\ frames < MaxFrames
    /\ \E d \in Deltas : CheckTimeEnter(time + d)

\* one pass of while (accumulator >= physicsStep)
WhileBody ==
    /\ pc = "while"
    /\ accumulator >= physicsStep
    /\ \E h1 \in HalfExtents, h2 \in HalfExtents :
          \E nIn \in Uninitialised(pos2, vel2, physicsStep, h1, h2) :
              update(physicsStep, h1, h2, nIn)
    /\ accumulator' = accumulator - physicsStep
    /\ UNCHANGED <<time, timebase, frame, fps, FPSTime, pc, frames, clamped>>

\* the while loop ends and checkTime returns
WhileExit ==
    /\ pc = "while"
    /\ accumulator < physicsStep
    /\ pc' = "render"
    /\ UNCHANGED <<call, pos2, vel2, obs, ticks, hits, time, timebase, accumulator,
                   frame, fps, FPSTime, frames, clamped>>

\* renderScene, glfwSwapBuffers, frame++, glfwPollEvents
RenderFrame ==
    /\ pc = "render"
    /\ frame' = frame + 1
    /\ pc' = "checkTime"
    /\ UNCHANGED <<call, pos2, vel2, obs, ticks, hits, time, timebase, accumulator,
                   fps, FPSTime, frames, clamped>>

\* the while loop run to its end from accumulator acc, n ticks made before it
RECURSIVE WhileLoop(_, _)
WhileLoop(acc, n) ==
    IF acc >= physicsStep THEN WhileLoop(acc - physicsStep, n + 1)
                          ELSE [accumulator |-> acc, ticks |-> n]

\* the ticks made and the accumulator left by a single checkTime call that
\* reads the clock as now, the first call of the program
OneCall(now) ==
    IF GatePassed(now, 0) THEN WhileLoop(Accumulate(0, now), 0)
                          ELSE [accumulator |-> 0, ticks |-> 0]

\* the scheduler's variables as the program starts
InitScheduler ==
    /\ time = 0
    /\ timebase = 0
    /\ accumulator = 0
    /\ frame = 0
    /\ fps = 0
    /\ FPSTime = 0
    /\ pc = "checkTime"
    /\ frames = 0
    /\ clamped = FALSE
    /\ ticks = 0
    /\ hits = 0

\* the program as it enters the main loop.  init() is not part of Main.cpp; the
\* bodies start as in the end-to-end scenario: obj1 at the origin, obj2 at
\* (0, 0, 5) with velocity (0, 0, -50)
Init ==
    /\ InitScheduler
    /\ call = NoCall
    /\ obs = NoObs
    /\ pos2 = <<0, 0, 50>>
    /\ vel2 = <<0, 0, -500>>

Next == CheckTime \/ WhileBody \/ WhileExit \/ RenderFrame

Spec == Init /\ [][Next]_vars

----------------------------------------------------------------------------
(* update(physicsStep) called tick after tick. *)

\* the number of ticks explored
MaxTicks == 6

\* starts of the moving body, position and velocity: towards obj1 along x from
\* either side, towards an edge and a corner of obj1 (two and three axes
\* crossing together), on two axes at different speeds, and out of the boundary
BodyInits ==
    { <<<<-6, 0, 0>>, <<250, 0, 0>>>>,
      <<<<3, 0, 0>>, <<-250, 0, 0>>>>,
      <<<<-6, -6, 0>>, <<500, 500, 0>>>>,
      <<<<-5, -5, -5>>, <<250, 250, 250>>>>,
      <<<<0, 6, 7>>, <<0, -500, -250>>>>,
      <<<<8, 0, -6>>, <<500, 0, 250>>>> }

UpdateTick ==
    /\ ticks < MaxTicks
    /\ \E h1 \in HalfExtents, h2 \in HalfExtents :
          \E nIn \in Uninitialised(pos2, vel2, physicsStep, h1, h2) :
              update(physicsStep, h1, h2, nIn)
    /\ UNCHANGED <<time, timebase, accumulator, frame, fps, FPSTime, pc, frames, clamped>>

InitUpdate ==
    /\ InitScheduler
    /\ call = NoCall
    /\ obs = NoObs
    /\ \E b \in BodyInits : pos2 = b[1] /\ vel2 = b[2]

SpecUpdate == InitUpdate /\ [][UpdateTick]_vars

----------------------------------------------------------------------------
(* SweptAABB on its own: the arguments are drawn, then the call is made. *)

\* the widest gap between the two boxes on an axis
MaxGap == 2
\* the largest displacement component
MaxDisp == 2

\* the stationary box, and the moving box by its least corner
StationaryBox == [min |-> <<0, 0, 0>>, max |-> <<1, 1, 1>>]
Corners == (0 - (MaxGap + 1))..(1 + MaxGap)
MovingBox(x, y, z) == [min |-> <<x, y, z>>, max |-> <<x + 1, y + 1, z + 1>>]
Disps == (0 - MaxDisp)..MaxDisp

\* the arguments of a call not yet made
Arguments(box1, box2, vel1) ==
    [box1 |-> box1, box2 |-> box2, vel1 |-> vel1, entry |-> <<Two, Two, Two>>,
     time |-> Two, normal |-> <<0, 0, 0>>, done |-> FALSE]

\* the tunneling instance: half-extents 0.1, 2.0 apart along x, displacement 5.0
TunnelCall ==
    Arguments([min |-> <<-1, -1, -1>>, max |-> <<1, 1, 1>>],
              [min |-> <<19, -1, -1>>, max |-> <<21, 1, 1>>], <<50, 0, 0>>)

InitSweep ==
    /\ InitScheduler
    /\ obs = NoObs
    /\ pos2 = <<0, 0, 0>>
    /\ vel2 = <<0, 0, 0>>
    /\ \/ \E x \in Corners, y \in Corners, z \in Corners,
            dx \in Disps, dy \in Disps, dz \in Disps :
              call = Arguments(MovingBox(x, y, z), StationaryBox, <<dx, dy, dz>>)
       \/ call = TunnelCall

Sweep ==
    /\ ~call.done
    /\ \E nIn \in IF NormalAssigned(SweptAABB(call.box1, call.box2, call.vel1, <<0, 0, 0>>))
                     THEN {<<0, 0, 0>>}
                     ELSE UninitNormal :
          call' = SweptAABB(call.box1, call.box2, call.vel1, nIn)
    /\ UNCHANGED <<pos2, vel2, obs, ticks, hits, time, timebase, accumulator,
                   frame, fps, FPSTime, pc, frames, clamped>>

SpecSweep == InitSweep /\ [][Sweep]_vars

----------------------------------------------------------------------------
(* Properties of SweptAABB, checked under SpecSweep. *)

\* the call reported a collision: it returned something other than 2.0f
Collided(c) == c.done /\ c.time # Two

\* the two boxes' extents overlap on axis j (touching included)
OverlapOn(c, j) == c.box1.min[j] <= c.box2.max[j] /\ c.box2.min[j] <= c.box1.max[j]

\* the gap on axis i between the moving box's leading face and the face of the
\* stationary box it moves towards
GapAhead(c, i) ==
    IF c.vel1[i] > 0 THEN c.box2.min[i] - c.box1.max[i]
                     ELSE c.box1.min[i] - c.box2.max[i]

\* the displacement lies along axis i alone and points at the stationary box,
\* whose near face is within the displacement; on the other axes they overlap
SingleAxisApproach(c, i) ==
    /\ c.vel1[i] # 0
    /\ \A j \in Axes \ {i} : c.vel1[j] = 0 /\ OverlapOn(c, j)
    /\ 0 <= GapAhead(c, i)
    /\ GapAhead(c, i) <= Abs(c.vel1[i])

IsTunnelCall(c) ==
    c.box1 = TunnelCall.box1 /\ c.box2 = TunnelCall.box2 /\ c.vel1 = TunnelCall.vel1

\* C1 as stated: a single-axis approach is reported as a collision, and in the
\* instance of the tunneling check the time is 0.38 (to two decimals:
\* 0.375 <= time < 0.385)
C1_Stated ==
    call.done =>
      /\ \A i \in Axes : SingleAxisApproach(call, i) => call.time # Two
      /\ IsTunnelCall(call) =>
            /\ call.time # Two
            /\ Leq(Frac(375, 1000), call.time)
            /\ Lt(call.time, Frac(385, 1000))

\* C1, amended: a single-axis approach is reported as a collision at the time
\* gap / |displacement|, however far the displacement carries the box, and in
\* the instance of the tunneling check the time is (2.0 - 0.2) / 5.0 = 0.36
C1_TunnelingReported ==
    call.done =>
      /\ \A i \in Axes :
            SingleAxisApproach(call, i) =>
              /\ call.time # Two
              /\ Eq(call.time, Frac(GapAhead(call, i), Abs(call.vel1[i])))
      /\ IsTunnelCall(call) => Eq(call.time, Frac(36, 100))

\* C1's case: the displacement carries the moving box clean through the
\* stationary one (further than the gap and both sizes), and a collision is reported
C1_Witness ==
    /\ call.done
    /\ call.time # Two
    /\ \E i \in Axes :
          /\ SingleAxisApproach(call, i)
          /\ GapAhead(call, i) > 0
          /\ Abs(call.vel1[i]) >
               GapAhead(call, i) + (call.box1.max[i] - call.box1.min[i])
                                 + (call.box2.max[i] - call.box2.min[i])

\* exactly one axis is the last to cross: no two axes tie for the latest entry
UniqueAxis(c) == \E i \in Axes : LastToCross(c.entry, i)

\* C2: when a collision is reported and no two axes tie for the latest entry
\* time, 0 <= time <= 1 and exactly one component of the normal has magnitude 1
\* while the other two are 0
C2_TimeAndNormalRange ==
    (Collided(call) /\ UniqueAxis(call)) =>
      /\ Leq(Zero, call.time)
      /\ Leq(call.time, One)
      /\ \E i \in Axes :
            /\ Abs(call.normal[i]) = 1
            /\ \A j \in Axes \ {i} : call.normal[j] = 0

\* C2's case: a collision strictly inside the step, on a box moving on two axes
C2_Witness ==
    /\ Collided(call)
    /\ UniqueAxis(call)
    /\ Lt(Zero, call.time)
    /\ Lt(call.time, One)
    /\ call.vel1[1] # 0
    /\ call.vel1[2] # 0

\* on axis i the boxes are separated and the displacement points away
MovingApartOn(c, i) ==
    \/ c.box1.max[i] < c.box2.min[i] /\ c.vel1[i] < 0
    \/ c.box1.min[i] > c.box2.max[i] /\ c.vel1[i] > 0

\* C4: boxes that do not overlap and move apart on an axis on which they are
\* separated get the sentinel 2.0 and the normal (0,0,0)
C4_MovingApartNoCollision ==
    (call.done /\ ~TestAABB(call.box1, call.box2)
               /\ \E i \in Axes : MovingApartOn(call, i)) =>
      /\ call.time = Two
      /\ call.normal = <<0, 0, 0>>

\* C4's case: separated and moving apart on x while the other axes overlap and
\* stand still, so that every entry time is negative and the exit is not
\* before the entry
C4_Witness ==
    /\ call.done
    /\ ~TestAABB(call.box1, call.box2)
    /\ MovingApartOn(call, 1)
    /\ call.vel1[2] = 0 /\ OverlapOn(call, 2)
    /\ call.vel1[3] = 0 /\ OverlapOn(call, 3)
    /\ call.time = Two

\* zero displacement, and the boxes overlap on every axis
OverlapAtRest(c) == c.vel1 = <<0, 0, 0>> /\ TestAABB(c.box1, c.box2)

\* C5 as stated: boxes overlapping at rest get a time in [0,1], not the
\* sentinel, every entry time being the negative-infinity flag or within range
C5_Stated ==
    (call.done /\ OverlapAtRest(call)) =>
      /\ call.time # Two
      /\ Leq(Zero, call.time)
      /\ Leq(call.time, One)
      /\ \A i \in Axes :
            call.entry[i] = NegInf \/ (Leq(Zero, call.entry[i]) /\ Leq(call.entry[i], One))

\* C5, amended: for boxes overlapping at rest every entry time is the
\* negative-infinity flag, and the call returns the sentinel 2.0 with the
\* normal (0,0,0): they are not reported as colliding
C5_OverlapAtRestNotReported ==
    (call.done /\ OverlapAtRest(call)) =>
      /\ \A i \in Axes : call.entry[i] = NegInf
      /\ call.time = Two
      /\ call.normal = <<0, 0, 0>>

\* C5's case: boxes at rest that only touch on an axis, after the call
C5_Witness ==
    /\ call.done
    /\ OverlapAtRest(call)
    /\ \E i \in Axes : call.box1.min[i] = call.box2.max[i]
    /\ call.time = Two

\* C9 as stated: on a collision with a unique colliding axis, the normal on that
\* axis and the displacement on that axis have opposite signs, also when the
\* boxes touch on that axis (entryDistance = 0)
C9_Stated ==
    Collided(call) =>
      \A i \in Axes :
        LastToCross(call.entry, i) => Sign(call.normal[i]) = 0 - Sign(call.vel1[i])

----------------------------------------------------------------------------
(* Properties of update, checked under SpecUpdate. *)

\* the boundary check of the last tick reflected no axis
NoBoundaryFired == \A i \in Axes : ~obs.fired[i]

\* v is u with the sign of component i flipped, a component that is not zero
FlippedOn(u, v, i) == u[i] # 0 /\ v = [u EXCEPT ![i] = 0 - u[i]]

\* C7 as stated: in a tick in which the solver reports a collision and the
\* boundary check does not fire, the velocity after the tick is the velocity
\* before it with the sign of exactly one component flipped
C7_Stated ==
    (obs.done /\ Collided(call) /\ NoBoundaryFired) =>
      \E i \in Axes : FlippedOn(obs.vel0, vel2, i)

\* the sum of the durations in ds is dt
SumsTo(ds, dt) ==
    IF Len(ds) = 1 THEN ds[1].n = dt * ds[1].d
    ELSE ds[1].n * ds[2].d + ds[2].n * ds[1].d = dt * ds[1].d * ds[2].d

\* C10: a tick with a collision at t integrates both bodies by t * dt with the
\* velocity from before the bounce, sets the reflected velocity, and integrates
\* both by (1 - t) * dt with it; a tick without integrates both once by dt; in
\* both cases each body's durations sum to dt
C10_TwoPhaseIntegration ==
    obs.done =>
      /\ obs.durs1 = obs.durs2
      /\ SumsTo(obs.durs2, obs.dt)
      /\ IF Collided(call)
           THEN /\ Leq(Zero, call.time) /\ Leq(call.time, One)
                /\ obs.durs2 = <<Scale(call.time, obs.dt),
                                 Scale(Frac(call.time.d - call.time.n, call.time.d), obs.dt)>>
                /\ vel2 = Bounce(obs.velIn, call.normal)
                /\ pos2 = Integrate(Integrate(obs.pos0, obs.velIn, obs.durs2[1]),
                                    vel2, obs.durs2[2])
           ELSE /\ obs.durs2 = <<Frac(obs.dt, 1)>>
                /\ vel2 = obs.velIn
                /\ pos2 = Integrate(obs.pos0, obs.velIn, obs.durs2[1])

\* C10's case: a collision strictly inside the tick that reverses the body
C10_Witness ==
    /\ obs.done
    /\ Collided(call)
    /\ Lt(Zero, call.time)
    /\ Lt(call.time, One)
    /\ vel2 # obs.velIn

----------------------------------------------------------------------------
(* Properties of the scheduler and of the end-to-end scenario, checked under *)
(* Spec.                                                                     *)

\* checkTime has returned
Returned == pc = "render"

\* C6 as stated: while the clamp has not triggered, the ticks made and the
\* accumulator left after a checkTime call are those of any other chunking of
\* the same total, here the single call that reads the whole total at once
C6_Stated ==
    (Returned /\ ~clamped /\ time <= maxDt) =>
      /\ ticks = OneCall(time).ticks
      /\ accumulator = OneCall(time).accumulator

\* C6, amended: while the clamp has not triggered, after a checkTime call that
\* passed the dt > physicsStep gate (timebase = time) the ticks made and the
\* accumulator left depend on the total alone, total / physicsStep and the
\* remainder, as after the single call that reads the whole total at once
C6_ChunkingIndependent ==
    (Returned /\ ~clamped /\ timebase = time) =>
      /\ ticks = time \div physicsStep
      /\ accumulator = time % physicsStep
      /\ time <= maxDt =>
            /\ ticks = OneCall(time).ticks
            /\ accumulator = OneCall(time).accumulator

\* C6's case: the total 54 read in three frames, one of them below the gate
\* (12, 12, 30 or 30, 12, 12), the last of them above it
C6_Witness ==
    /\ Returned
    /\ ~clamped
    /\ timebase = time
    /\ frames = 3
    /\ time = 54
    /\ ticks = 4
    /\ accumulator = 6

\* C8: while the clamp has not triggered no time is discarded: the ticks made,
\* the accumulator and the time not yet taken up (clock - timebase) add up to
\* the clock time elapsed since startup
C8_NoTimeDiscarded ==
    ~clamped => physicsStep * ticks + accumulator + (time - timebase) = time

\* C8's case: a frame below the gate after ticks were made, its delta kept in
\* clock - timebase and a leftover kept in the accumulator
C8_Witness ==
    /\ Returned
    /\ ~clamped
    /\ ticks > 0
    /\ accumulator > 0
    /\ time - timebase > 0

\* the z-velocity changed sign in the last tick
ZFlipped == Sign(vel2[3]) # Sign(obs.vel0[3])

\* the moving box's centre is beyond the far face of the stationary box
\* (half-extent 0.1), which the body approaches from +z
BeyondFarFace == pos2[3] < Obj1Position[3] - 1

\* C3 as stated: the z-velocity flips in a tick exactly when the solver reports
\* a collision in it (once per pass-through), and the centre is never beyond the
\* far face without a collision having been reported
C3_Stated ==
    /\ obs.done => (ZFlipped <=> Collided(call))
    /\ BeyondFarFace => hits > 0

\* C3, amended: in the scenario the boundary check fires on z in every tick and
\* flips the z-velocity, the solver never reports a collision, the body
\* alternates between z = 5.0 and z = 5.6, and is never beyond the far face
C3_ScenarioNeverReachesBox ==
    /\ hits = 0
    /\ ~BeyondFarFace
    /\ pos2[3] \in {50, 56}
    /\ obs.done => (obs.fired[3] /\ ZFlipped /\ ~Collided(call))

\* C3's case: after two ticks the body is back at z = 5.0 with velocity -50
C3_Witness ==
    /\ obs.done
    /\ ticks >= 2
    /\ pos2 = <<0, 0, 50>>
    /\ vel2 = <<0, 0, -500>>

============================================================================
